---- MODULE Spec2Model ----
(***************************************************************************)
(* A model of src/index.js: the QSL card service.  Two collections of      *)
(* cards ("sent" and "received") are kept as two JSON blobs in an object   *)
(* store; every request is one run of handleRequest, which suspends only   *)
(* at the store calls (cos.getObject, cos.putObject).                      *)
(*                                                                         *)
(* Field values are strings; where the code reads a value character by     *)
(* character (trim, the date pattern) the model reads Chars of it.  The    *)
(* request's action and type flags are only compared and tested for        *)
(* truthiness, "" standing for a missing or empty value.                   *)
(* Ids are opaque: the i-th uuidv4() result is the integer i, an id chosen *)
(* by a caller is an integer of ForeignIds, and NoId is a missing id.      *)
(* A blob holds what JSON.stringify wrote: a card of strings and ISO       *)
(* timestamps is read back by JSON.parse as it was written, so a blob is   *)
(* modelled by the sequence of cards it holds, and distinguished from a    *)
(* missing blob and from a blank one.  CONFIG.cos.paths holds two          *)
(* placeholders to be filled in at deployment; the model takes the two     *)
(* keys to be different.                                                   *)
(* Spec runs saveCard and deleteCard requests concurrently on one          *)
(* collection; SeqSpec runs requests of every kind one at a time; ViewSpec *)
(* runs getStats and getChartData over collections found in the store, on  *)
(* any day.  The clock that stamps the cards (now) only orders events; the *)
(* calendar date getChartData reads is an input of its own.                *)
(***************************************************************************)
EXTENDS Integers, Sequences, FiniteSets, TLC

(* ---------------------------- bounds ---------------------------------- *)
\* saveCard's uuidv4() calls in one behaviour
MaxUuid == 2
\* largest value of the clock
MaxClock == 1
\* lengths of the collections the views are computed from
MaxSentCards == 2
MaxReceivedCards == 1

(* ---------------------------- values ---------------------------------- *)
\* a field the JSON payload does not carry (JavaScript undefined)
Absent == "<undefined>"
NoId == 0
ForeignIds == {101}

Digits == {"0", "1", "2", "3", "4", "5", "6", "7", "8", "9"}
Whitespace == {" ", "\t", "\n"}

\* the strings that occur as field values
S_empty == ""
S_blank == " "
S_call == "JA1"
S_mycall == "BG2"
S_mode == "CW"
S_date == "2024-01-15"
S_baddate == "2024-1-5"
S_online == "online"
S_physical == "physical"
S_stamp == "stamp"
S_pending == "pending"
S_sent == "sent"
S_received == "received"
S_verified == "verified"
\* further values of cards found in the collections
S_call2 == "ja2"
S_call3 == "W1X"
S_callShort == "w"
S_modeLower == "cw"
S_eyeMixed == "Eye"
S_modeTwo == "2"
S_dateFirst == "2024-02-01"
S_dateNoMonth == "2024-13-01"
S_dateWord == "n/a"

\* the characters of a field value, for the code that reads them one by one
Chars(v) ==
    CASE v = S_empty -> << >>
      [] v = S_blank -> <<" ">>
      [] v = S_call -> <<"J", "A", "1">>
      [] v = S_mycall -> <<"B", "G", "2">>
      [] v = S_mode -> <<"C", "W">>
      [] v = S_date -> <<"2", "0", "2", "4", "-", "0", "1", "-", "1", "5">>
      [] v = S_baddate -> <<"2", "0", "2", "4", "-", "1", "-", "5">>
      [] v = S_online -> <<"o", "n", "l", "i", "n", "e">>
      [] v = S_physical -> <<"p", "h", "y", "s", "i", "c", "a", "l">>
      [] v = S_stamp -> <<"s", "t", "a", "m", "p">>
      [] v = S_pending -> <<"p", "e", "n", "d", "i", "n", "g">>
      [] v = S_sent -> <<"s", "e", "n", "t">>
      [] v = S_received -> <<"r", "e", "c", "e", "i", "v", "e", "d">>
      [] v = S_verified -> <<"v", "e", "r", "i", "f", "i", "e", "d">>
      [] v = S_call2 -> <<"j", "a", "2">>
      [] v = S_call3 -> <<"W", "1", "X">>
      [] v = S_callShort -> <<"w">>
      [] v = S_modeLower -> <<"c", "w">>
      [] v = S_eyeMixed -> <<"E", "y", "e">>
      [] v = S_modeTwo -> <<"2">>
      [] v = S_dateFirst ->
            <<"2", "0", "2", "4", "-", "0", "2", "-", "0", "1">>
      [] v = S_dateNoMonth ->
            <<"2", "0", "2", "4", "-", "1", "3", "-", "0", "1">>
      [] v = S_dateWord -> <<"n", "/", "a">>
      [] v = Absent ->
            <<"u", "n", "d", "e", "f", "i", "n", "e", "d">>

\* CONFIG.cos.paths: the two object keys, one per role
SentPath == "sentCards"
ReceivedPath == "receivedCards"
Paths == {SentPath, ReceivedPath}

supportedActions ==
    {"ping", "getStats", "getChartData", "getSentCards", "getReceivedCards",
     "saveCard", "deleteCard"}

(* ----------------------- String.prototype.trim ------------------------ *)
RECURSIVE TrimLeft(_)
TrimLeft(s) ==
    IF s = << >> THEN << >>
    ELSE IF Head(s) \in Whitespace THEN TrimLeft(Tail(s)) ELSE s

RECURSIVE TrimRight(_)
TrimRight(s) ==
    IF s = << >> THEN << >>
    ELSE IF s[Len(s)] \in Whitespace THEN TrimRight(SubSeq(s, 1, Len(s) - 1))
    ELSE s

Trim(s) == TrimRight(TrimLeft(s))

\* !v?.trim() for a string or missing v
BlankField(v) == IF v = Absent THEN TRUE ELSE Trim(Chars(v)) = << >>

\* /^\d{4}-\d{2}-\d{2}$/.test(v); a missing v is tested as "undefined"
DatePattern(v) ==
    LET c == Chars(v) IN
    /\ Len(c) = 10
    /\ \A i \in {1, 2, 3, 4, 6, 7, 9, 10} : c[i] \in Digits
    /\ c[5] = "-"
    /\ c[8] = "-"

\* JavaScript truthiness of a string or missing field
Truthy(v) == v # Absent /\ v # ""

(* --------------------------- validateCardData ------------------------- *)
E_callSign == "callSign"
E_myCallSign == "myCallSign"
E_date == "date"
E_mode == "mode"
E_cardType == "cardType"
E_statusSent == "statusSent"
E_statusReceived == "statusReceived"

StatusSentCheck(card, isSentCard) ==
    isSentCard /\ card.status \notin {S_pending, S_sent}

StatusReceivedCheck(card, isSentCard) ==
    (~isSentCard) /\ Truthy(card.status)
        /\ card.status \notin {S_received, S_verified}

\* the errors array of validateCardData, in push order
ValidationErrors(card, isSentCard) ==
    (IF BlankField(card.callSign) THEN <<E_callSign>> ELSE << >>)
    \o (IF BlankField(card.myCallSign) THEN <<E_myCallSign>> ELSE << >>)
    \o (IF ~DatePattern(card.date) THEN <<E_date>> ELSE << >>)
    \o (IF BlankField(card.mode) THEN <<E_mode>> ELSE << >>)
    \o (IF card.cardType \notin {S_online, S_physical}
        THEN <<E_cardType>> ELSE << >>)
    \o (IF StatusSentCheck(card, isSentCard) THEN <<E_statusSent>> ELSE << >>)
    \o (IF StatusReceivedCheck(card, isSentCard)
        THEN <<E_statusReceived>> ELSE << >>)

(* ------------------------- strings and dates -------------------------- *)
LowerCase ==
    <<"a", "b", "c", "d", "e", "f", "g", "h", "i", "j", "k", "l", "m", "n",
      "o", "p", "q", "r", "s", "t", "u", "v", "w", "x", "y", "z">>
UpperCase ==
    <<"A", "B", "C", "D", "E", "F", "G", "H", "I", "J", "K", "L", "M", "N",
      "O", "P", "Q", "R", "S", "T", "U", "V", "W", "X", "Y", "Z">>

\* String.prototype.toUpperCase and toLowerCase, on the characters
toUpperCase(s) ==
    [i \in 1..Len(s) |->
        IF \E k \in 1..26 : LowerCase[k] = s[i]
        THEN UpperCase[CHOOSE k \in 1..26 : LowerCase[k] = s[i]]
        ELSE s[i]]
toLowerCase(s) ==
    [i \in 1..Len(s) |->
        IF \E k \in 1..26 : UpperCase[k] = s[i]
        THEN LowerCase[CHOOSE k \in 1..26 : UpperCase[k] = s[i]]
        ELSE s[i]]

\* s.substring(0, 2)
Substring02(s) == SubSeq(s, 1, IF Len(s) < 2 THEN Len(s) ELSE 2)

DigitChar(n) == <<"0", "1", "2", "3", "4", "5", "6", "7", "8", "9">>[n + 1]
DigitValue(c) == CHOOSE n \in 0..9 : DigitChar(n) = c

\* String(n) for a natural number n
RECURSIVE NumberToString(_)
NumberToString(n) ==
    IF n < 10 THEN <<DigitChar(n)>>
    ELSE NumberToString(n \div 10) \o <<DigitChar(n % 10)>>

\* the number a string of digits denotes
RECURSIVE StringToNumber(_)
StringToNumber(s) ==
    IF s = << >> THEN 0
    ELSE 10 * StringToNumber(SubSeq(s, 1, Len(s) - 1)) + DigitValue(s[Len(s)])

\* s.padStart(2, '0')
PadStart2(s) == IF Len(s) < 2 THEN <<"0">> \o s ELSE s

\* a Date, by the local year, month (0..11, as getMonth returns it) and day
\* of the month it denotes; `valid` is false for an Invalid Date
DateOf(year, month, day) ==
    [valid |-> TRUE, year |-> year, month |-> month, day |-> day]
InvalidDate == [valid |-> FALSE, year |-> 0, month |-> 0, day |-> 0]

IsLeapYear(year) ==
    (year % 4 = 0) /\ ((year % 100 # 0) \/ (year % 400 = 0))
DaysInMonth(year, month) ==
    IF month = 1 THEN (IF IsLeapYear(year) THEN 29 ELSE 28)
    ELSE IF month \in {3, 5, 8, 10} THEN 30
    ELSE 31

\* MakeDay: the date of day `day` of month `month` of `year`, where the
\* month may lie outside 0..11 and the day may lie past the month's end (by
\* less than a month)
MakeDay(year, month, day) ==
    LET y == year + (month \div 12)
        m == month % 12
    IN
    IF day <= DaysInMonth(y, m) THEN DateOf(y, m, day)
    ELSE IF m = 11 THEN DateOf(y + 1, 0, day - DaysInMonth(y, m))
    ELSE DateOf(y, m + 1, day - DaysInMonth(y, m))

\* date.setMonth(month): the day of the month is kept, and carried into
\* the next month when the new month is too short for it
setMonth(date, month) == MakeDay(date.year, month, date.day)

\* `${d.getFullYear()}-${String(d.getMonth() + 1).padStart(2, '0')}`
MonthKey(date) ==
    NumberToString(date.year) \o <<"-">>
        \o PadStart2(NumberToString(date.month + 1))

\* new Date(v) for a field value v.  A value of the form YYYY-MM-DD is a
\* date when its month is 01..12 and its day 01..31, a day past the month's
\* end being carried over; it is read as midnight UTC, and the local date is
\* that date in a time zone at or east of UTC.  The other values of the
\* model ("n/a", "undefined") are no dates.
NewDate(v) ==
    LET c == Chars(v)
        year == StringToNumber(SubSeq(c, 1, 4))
        month == StringToNumber(SubSeq(c, 6, 7))
        day == StringToNumber(SubSeq(c, 9, 10))
    IN
    IF ~DatePattern(v) THEN InvalidDate
    ELSE IF month \notin 1..12 \/ day \notin 1..31 THEN InvalidDate
    ELSE MakeDay(year, month - 1, day)

(* ------------------------------ getStats ------------------------------ *)
\* a country taken from the call sign as it is written
CountryAsWritten(card) == Substring02(Chars(card.callSign))

\* card.callSign.substring(0, 2).toUpperCase()
Country(card) == toUpperCase(Substring02(Chars(card.callSign)))

\* card.mode?.toLowerCase() === 'eye'
IsEye(card) ==
    card.mode # Absent /\ toLowerCase(Chars(card.mode)) = <<"e", "y", "e">>

\* getStats after its two reads; receivedGrowth, sentGrowth, countryGrowth
\* are random numbers that nothing reads, and are left out
getStats(sentCards, receivedCards) ==
    LET all == sentCards \o receivedCards IN
    [received |-> Len(receivedCards),
     sent |-> Len(sentCards),
     pending |-> Cardinality({i \in 1..Len(sentCards) :
                                sentCards[i].status = S_pending}),
     countries |->
        Cardinality({Country(all[i]) :
                        i \in {j \in 1..Len(all) : Truthy(all[j].callSign)}}),
     eyeQso |-> Cardinality({i \in 1..Len(all) : IsEye(all[i])})]

(* ---------------------------- getChartData ---------------------------- *)
\* a filter that takes every card with a valid date
InMonthAnyDate(card, monthKey) ==
    Truthy(card.date) /\ NewDate(card.date).valid

\* the filter of the monthly series: the card has a date, the date is
\* valid, and its month key is monthKey
InMonth(card, monthKey) ==
    LET cardDate == NewDate(card.date) IN
    /\ Truthy(card.date)
    /\ cardDate.valid
    /\ MonthKey(cardDate) = monthKey

\* cards.filter(card => ...).length, for the month of monthKey
MonthCount(cards, monthKey) ==
    Cardinality({i \in 1..Len(cards) : InMonth(cards[i], monthKey)})

\* card.mode?.toUpperCase() || 'OTHER'
ModeOf(card) ==
    IF card.mode = Absent \/ Chars(card.mode) = << >>
    THEN <<"O", "T", "H", "E", "R">>
    ELSE toUpperCase(Chars(card.mode))

\* the keys of `modes` in the order they were created: the modes of the
\* cards, each where it is first seen
RECURSIVE CreatedKeys(_)
CreatedKeys(cards) ==
    IF cards = << >> THEN << >>
    ELSE LET before == CreatedKeys(SubSeq(cards, 1, Len(cards) - 1))
             mode == ModeOf(cards[Len(cards)])
         IN IF \E i \in 1..Len(before) : before[i] = mode THEN before
            ELSE Append(before, mode)

\* a property key that is an array index: a canonical numeric string
IsIndexKey(key) ==
    /\ key # << >>
    /\ \A i \in 1..Len(key) : key[i] \in Digits
    /\ Len(key) > 1 => key[1] # "0"

\* the index keys among keys, in ascending numeric order
RECURSIVE Ascending(_)
Ascending(keys) ==
    IF keys = {} THEN << >>
    ELSE LET least == CHOOSE k \in keys :
                        \A other \in keys :
                            StringToNumber(k) <= StringToNumber(other)
         IN <<least>> \o Ascending(keys \ {least})

\* Object.keys(modes): index keys first, in ascending numeric order, then
\* the other keys in the order they were created
ObjectKeys(created) ==
    Ascending({created[i] : i \in {j \in 1..Len(created) :
                                      IsIndexKey(created[j])}})
    \o SelectSeq(created, LAMBDA key : ~IsIndexKey(key))

\* getChartData after its two reads, on the day `today`
getChartData(sentCards, receivedCards, today) ==
    LET all == sentCards \o receivedCards
        \* the key pushed by the loop's turn i
        monthKey(i) == MonthKey(setMonth(today, today.month - i))
        months == <<monthKey(5), monthKey(4), monthKey(3), monthKey(2),
                    monthKey(1), monthKey(0)>>
        labels == ObjectKeys(CreatedKeys(all))
    IN
    [monthly |->
        [labels |-> months,
         sent |-> [k \in 1..6 |-> MonthCount(sentCards, months[k])],
         pending |-> [k \in 1..6 |-> MonthCount(sentCards, months[k])],
         received |-> [k \in 1..6 |-> MonthCount(receivedCards, months[k])]],
     modes |->
        [labels |-> labels,
         \* the value of each key: how many cards were counted under it
         data |-> [k \in 1..Len(labels) |->
                    Cardinality({i \in 1..Len(all) :
                                    ModeOf(all[i]) = labels[k]})]]]

(* ------------------------------ errors -------------------------------- *)
\* a property an Error object does not have (undefined, falsy)
Undef == 0

\* class QslError: constructor(message, code = -1, statusCode = 500)
QslError(message, code, statusCode) ==
    [message |-> message, code |-> code, statusCode |-> statusCode]

\* a TypeError or SyntaxError thrown by the runtime: no code, no statusCode
RuntimeError(message) ==
    [message |-> message, code |-> Undef, statusCode |-> Undef]

\* a || b on numbers
OrElse(a, b) == IF a # Undef THEN a ELSE b

NoCard ==
    [id |-> NoId, callSign |-> Absent, myCallSign |-> Absent, date |-> Absent,
     mode |-> Absent, cardType |-> Absent, status |-> Absent,
     createdAt |-> 0, updatedAt |-> 0]

\* the value handleRequest puts in the envelope's data field.  The result
\* of getStats or getChartData is the view; with it the record keeps the
\* two snapshots and the day it was computed from.
NoResult ==
    [kind |-> "none", cards |-> << >>, received |-> << >>, card |-> NoCard]
CardsResult(cards) ==
    [kind |-> "cards", cards |-> cards, received |-> << >>, card |-> NoCard]
ViewResult(kind, sentCards, receivedCards, today) ==
    [kind |-> kind, cards |-> sentCards, received |-> receivedCards,
     card |-> NoCard, today |-> today,
     view |-> IF kind = "getStats" THEN getStats(sentCards, receivedCards)
              ELSE getChartData(sentCards, receivedCards, today)]
CardResult(card) ==
    [kind |-> "card", cards |-> << >>, received |-> << >>, card |-> card]
TrueResult ==
    [kind |-> "true", cards |-> << >>, received |-> << >>, card |-> NoCard]
\* getSystemStatus
StatusResult ==
    [kind |-> "status", cards |-> << >>, received |-> << >>, card |-> NoCard]

DefaultMessage == <<"internal error">>

\* a catch block without the || fallbacks
FailureEnvelopeRaw(error) ==
    [statusCode |-> error.statusCode,
     body |-> TRUE,
     code |-> error.code,
     message |-> error.message,
     data |-> NoResult,
     requestId |-> TRUE]

\* handleRequest, the catch block: the failure envelope
FailureEnvelope(error) ==
    [statusCode |-> OrElse(error.statusCode, 500),
     body |-> TRUE,
     code |-> OrElse(error.code, -1),
     message |-> IF error.message # << >> THEN error.message
                 ELSE DefaultMessage,
     data |-> NoResult,
     requestId |-> TRUE]

\* handleRequest, the success return
SuccessEnvelope(result) ==
    [statusCode |-> 200, body |-> TRUE, code |-> 0, message |-> <<"ok">>,
     data |-> result, requestId |-> TRUE]

\* handleRequest, the reply to a preflight request: status 204, empty body
PreflightReply ==
    [statusCode |-> 204, body |-> FALSE, code |-> Undef, message |-> << >>,
     data |-> NoResult, requestId |-> FALSE]

\* no reply has been sent
NoReply ==
    [statusCode |-> Undef, body |-> FALSE, code |-> Undef, message |-> << >>,
     data |-> NoResult, requestId |-> FALSE]

(* ------------------------------ the store ----------------------------- *)
\* what the object store holds under one key
AbsentBlob == [kind |-> "absent", cards |-> << >>]
BlankBlob == [kind |-> "blank", cards |-> << >>]
JsonBlob(cards) == [kind |-> "json", cards |-> cards]

\* how a getObject call can end, besides returning what is stored
GetFailures ==
    {"SignatureDoesNotMatch", "AccessDenied", "InvalidBucketName",
     "InvalidRegion", "Other", "BadBody"}
GetOutcomes == {"ok"} \cup GetFailures
PutOutcomes == {"ok", "fail"}

\* cos.getObject: the store's answer for a blob under outcome o
GetObject(blob, o) ==
    IF o # "ok" THEN o
    ELSE IF blob.kind = "absent" THEN "NoSuchKey"
    ELSE "body"

Loaded(cards) == [ok |-> TRUE, cards |-> cards, error |-> RuntimeError(<< >>)]
LoadFailed(error) == [ok |-> FALSE, cards |-> << >>, error |-> error]

\* a readFromCos that takes a refused read for a missing blob
readFromCosLenient(blob, o) ==
    LET answer == GetObject(blob, o) IN
    IF answer = "body" THEN
        IF blob.kind = "blank" THEN Loaded(<< >>) ELSE Loaded(blob.cards)
    ELSE IF answer \in {"NoSuchKey", "AccessDenied"} THEN Loaded(<< >>)
    ELSE LoadFailed(QslError(<<"read failed">>, 1005, 500))

\* readFromCos, given the store's answer
readFromCos(blob, o) ==
    LET answer == GetObject(blob, o) IN
    IF answer = "body" THEN
        \* content ? JSON.parse(content) : []
        IF blob.kind = "blank" THEN Loaded(<< >>) ELSE Loaded(blob.cards)
    ELSE IF answer = "NoSuchKey" THEN Loaded(<< >>)
    ELSE IF answer = "SignatureDoesNotMatch"
        THEN LoadFailed(QslError(<<"signature">>, 1001, 403))
    ELSE IF answer = "AccessDenied"
        THEN LoadFailed(QslError(<<"access denied">>, 1002, 403))
    ELSE IF answer = "InvalidBucketName"
        THEN LoadFailed(QslError(<<"bucket">>, 1003, 400))
    ELSE IF answer = "InvalidRegion"
        THEN LoadFailed(QslError(<<"region">>, 1004, 400))
    ELSE LoadFailed(QslError(<<"read failed">>, 1005, 500))

\* a put that keeps the stored cards the new content has no id of
PutObjectMerging(blob, data) ==
    JsonBlob(data \o SelectSeq(blob.cards,
                 LAMBDA c : \A i \in 1..Len(data) : data[i].id # c.id))

\* writeToCos, the effect of a put that succeeds: the blob is overwritten
PutObject(blob, data) == JsonBlob(data)

\* writeToCos, the error for data that is not an array.  Every caller
\* passes the array it read or filtered, so no request of the model ends in
\* it.
NotArrayError == QslError(<<"not an array">>, 1002, 400)

\* writeToCos, the error of a put that fails
WriteError == QslError(<<"write failed">>, 1003, 500)

(* ------------------------------ saveCard ------------------------------ *)
PathOf(isSentCard) == IF isSentCard THEN SentPath ELSE ReceivedPath

\* a saveCard that always takes the generated id
NewCardFreshId(cardData, uuid, created, updated) ==
    [id |-> uuid,
     callSign |-> cardData.callSign,
     myCallSign |-> cardData.myCallSign,
     date |-> cardData.date,
     mode |-> cardData.mode,
     cardType |-> cardData.cardType,
     status |-> cardData.status,
     createdAt |-> created,
     updatedAt |-> updated]

\* { id: uuidv4(), ...cardData, createdAt, updatedAt }
NewCard(cardData, uuid, created, updated) ==
    [id |-> IF cardData.id # NoId THEN cardData.id ELSE uuid,
     callSign |-> cardData.callSign,
     myCallSign |-> cardData.myCallSign,
     date |-> cardData.date,
     mode |-> cardData.mode,
     cardType |-> cardData.cardType,
     status |-> cardData.status,
     createdAt |-> created,
     updatedAt |-> updated]

\* a findIndex that never finds
FindIndexNone(cards, id) == 0

\* cards.findIndex(card => card.id === id): 0 stands for JavaScript's -1
FindIndex(cards, id) ==
    IF \E i \in 1..Len(cards) : cards[i].id = id
    THEN CHOOSE i \in 1..Len(cards) :
             /\ cards[i].id = id
             /\ \A j \in 1..(i - 1) : cards[j].id # id
    ELSE 0

\* an upsert that pushes without looking for the id
UpsertPush(cards, newCard) == Append(cards, newCard)

\* an upsert that finds the card and leaves it as it was
UpsertKeepOld(cards, newCard) ==
    IF \E i \in 1..Len(cards) : cards[i].id = newCard.id THEN cards
    ELSE Append(cards, newCard)

\* saveCard, "add or update": replace at existingIndex, else push
Upsert(cards, newCard) ==
    LET existingIndex == FindIndex(cards, newCard.id) IN
    IF existingIndex >= 1 THEN [cards EXCEPT ![existingIndex] = newCard]
    ELSE Append(cards, newCard)

(* ----------------------------- deleteCard ----------------------------- *)
\* a filter that keeps nothing
FilteredAll(cards, cardId) == << >>

\* cards.filter(card => card.id !== cardId)
RECURSIVE Filtered(_, _)
Filtered(cards, cardId) ==
    IF cards = << >> THEN << >>
    ELSE IF Head(cards).id # cardId
        THEN <<Head(cards)>> \o Filtered(Tail(cards), cardId)
    ELSE Filtered(Tail(cards), cardId)

\* a deleteCard without the not-found check
NothingRemovedNever(cards, filteredCards) == FALSE

\* filteredCards.length === initialLength
NothingRemoved(cards, filteredCards) == Len(filteredCards) = Len(cards)

(* ------------------------------ requests ------------------------------ *)
VARIABLES
    store,      \* the blob under each path
    req,        \* per slot: the request running in it, or the last one it ran
    nextUuid,   \* uuidv4() calls made so far, plus one
    now         \* the clock read by new Date()

vars == <<store, req, nextUuid, now>>

\* two requests can be suspended at a store call at the same time
Slots == {1, 2}

\* values of the role flag: missing, the two roles, anything else
TypeFlags == {"", "sent", "received", "other"}

NoCardData ==
    [id |-> NoId, callSign |-> Absent, myCallSign |-> Absent, date |-> Absent,
     mode |-> Absent, cardType |-> Absent, status |-> Absent]

GoodCard(id, status) ==
    [id |-> id, callSign |-> S_call, myCallSign |-> S_mycall, date |-> S_date,
     mode |-> S_mode, cardType |-> S_online, status |-> status]


\* payloads that break one or more of the rules on the five common fields
BadPayloads ==
    {[GoodCard(NoId, S_pending) EXCEPT !.callSign = v] :
        v \in {Absent, S_empty, S_blank}}
    \cup {[GoodCard(NoId, S_pending) EXCEPT !.myCallSign = v] :
        v \in {Absent, S_blank}}
    \cup {[GoodCard(NoId, S_pending) EXCEPT !.date = v] :
        v \in {Absent, S_baddate}}
    \cup {[GoodCard(NoId, S_pending) EXCEPT !.mode = v] :
        v \in {Absent, S_empty}}
    \cup {[GoodCard(NoId, S_pending) EXCEPT !.cardType = v] :
        v \in {Absent, S_stamp}}
    \cup {[GoodCard(NoId, S_pending) EXCEPT !.status = v] :
        v \in {Absent, S_stamp}}
    \cup {[GoodCard(NoId, S_received) EXCEPT !.callSign = Absent,
                                             !.date = Absent]}

\* ids a caller can name: none, one of its own making, one it was given
KnownIds == {NoId} \cup ForeignIds \cup 1..(nextUuid - 1)

\* payloads that are valid for one of the two roles
GoodPayloads ==
    {GoodCard(id, S_pending) : id \in KnownIds}
    \cup {GoodCard(id, S_received) : id \in KnownIds \ ForeignIds}
    \cup {GoodCard(NoId, S_empty)}

BaseEvent ==
    [httpMethod |-> "POST", bodyKind |-> "absent", qAction |-> "",
     bAction |-> "", qType |-> "", bType |-> "", cardId |-> NoId,
     hasCardData |-> FALSE, cardData |-> NoCardData]

\* the events handleRequest is called with
Events ==
    {[BaseEvent EXCEPT !.httpMethod = "OPTIONS"]}
    \cup {[BaseEvent EXCEPT !.bodyKind = k, !.qAction = "ping"] :
            k \in {"malformed", "null", "emptyDecoded"}}
    \cup {[BaseEvent EXCEPT !.qAction = a] :
            a \in {"", "bogus", "ping", "getStats", "getChartData",
                   "getSentCards", "getReceivedCards", "saveCard"}}
    \cup {[BaseEvent EXCEPT !.bodyKind = "object", !.bAction = a] :
            a \in {"", "getReceivedCards"}}
    \cup {[BaseEvent EXCEPT !.bodyKind = "object", !.qAction = "ping",
                            !.bAction = "deleteCard"]}
    \cup {[BaseEvent EXCEPT !.bodyKind = "object", !.bAction = "saveCard",
                            !.bType = "received"]}
    \cup {[BaseEvent EXCEPT !.bodyKind = "object", !.bAction = "saveCard",
                            !.bType = t, !.hasCardData = TRUE,
                            !.cardData = c] :
            t \in {"received", "other"}, c \in GoodPayloads \cup BadPayloads}
    \cup {[BaseEvent EXCEPT !.bodyKind = "object", !.bAction = "saveCard",
                            !.bType = t, !.hasCardData = TRUE,
                            !.cardData = GoodCard(NoId, S_pending)] :
            t \in {"", "sent"}}
    \cup {[BaseEvent EXCEPT !.qAction = "deleteCard", !.qType = t,
                            !.cardId = id] :
            t \in TypeFlags, id \in KnownIds}

\* the saveCard and deleteCard requests that reach the store and address
\* the sent collection, the one the concurrent requests contend for
WriteEvents ==
    {[BaseEvent EXCEPT !.bodyKind = "object", !.bAction = "saveCard",
                       !.bType = "sent", !.hasCardData = TRUE,
                       !.cardData = GoodCard(id, S_pending)] :
        id \in KnownIds}
    \cup {[BaseEvent EXCEPT !.qAction = "deleteCard", !.qType = "sent",
                            !.cardId = id] :
            id \in KnownIds \ {NoId}}

\* requestBody after the body is parsed; {} when there is no body
RequestBody(ev) ==
    IF ev.bodyKind = "object"
    THEN [action |-> ev.bAction, type |-> ev.bType,
          hasCardData |-> ev.hasCardData, cardData |-> ev.cardData]
    ELSE [action |-> "", type |-> "", hasCardData |-> FALSE,
          cardData |-> NoCardData]

\* queryAction || bodyAction
ActionOf(ev) == IF ev.qAction # "" THEN ev.qAction ELSE RequestBody(ev).action

\* a slot: the request's position (pc), its event and parameters, its local
\* variables (cards, sentCards, newCard, data), the store calls it has made
\* (gets, puts) and its reply.  The other fields record what happened, for
\* the properties: the store as it was when the last readFromCos was
\* answered (seen), the store's answer and whether readFromCos returned
\* (answer, loaded), the uuidv4() result (uuid), the blob a put replaced
\* (over).
IdleSlot ==
    [pc |-> "idle", ev |-> BaseEvent, action |-> "", isSent |-> TRUE,
     cardId |-> NoId, cardData |-> NoCardData, cards |-> << >>,
     sentCards |-> << >>, newCard |-> NoCard, data |-> << >>,
     gets |-> 0, puts |-> 0, reply |-> NoReply, flag |-> "",
     seen |-> [p \in Paths |-> AbsentBlob], answer |-> "", loaded |-> FALSE,
     uuid |-> NoId, over |-> AbsentBlob]

\* the request has returned `reply`
Done(r, reply) == [r EXCEPT !.pc = "done", !.reply = reply]
Thrown(r, error) == Done(r, FailureEnvelope(error))

\* the request calls cos.getObject and is suspended.  From here on the code
\* reads the callee's parameters (cardData, cardId, the role), not the event.
AwaitGet(r, pc) == [r EXCEPT !.pc = pc, !.gets = @ + 1, !.ev = BaseEvent]
\* the request calls cos.putObject and is suspended
AwaitPut(r, data) == [r EXCEPT !.pc = "put", !.data = data, !.puts = @ + 1]

\* saveCard up to its first await: validateCardData, then readFromCos
saveCardEnter(r, cardData, hasCardData, isSentCard) ==
    IF ~hasCardData THEN Thrown(r, RuntimeError(<<"TypeError">>))
    ELSE IF ValidationErrors(cardData, isSentCard) # << >>
        THEN Thrown(r, QslError(ValidationErrors(cardData, isSentCard),
                                2001, 400))
    ELSE AwaitGet([r EXCEPT !.isSent = isSentCard, !.cardData = cardData],
                  "get")

\* a deleteCard that reads whatever id it is given
deleteCardEnterUnchecked(r, cardId, isSentCard) ==
    AwaitGet([r EXCEPT !.isSent = isSentCard, !.cardId = cardId], "get")

\* deleteCard up to its first await
deleteCardEnter(r, cardId, isSentCard) ==
    IF cardId = NoId THEN Thrown(r, QslError(<<"id required">>, 2002, 400))
    ELSE AwaitGet([r EXCEPT !.isSent = isSentCard, !.cardId = cardId], "get")

\* handleRequest from its call to its first await, or to its return
handleRequestEnter(ev) ==
    LET body == RequestBody(ev)
        action == ActionOf(ev)
        \* the role flag the operation is given: requestBody.type, or type
        flag == IF action = "saveCard" THEN body.type
                ELSE IF action = "deleteCard" THEN ev.qType ELSE ""
        r == [IdleSlot EXCEPT !.ev = ev, !.action = action, !.flag = flag]
    IN
    IF ev.httpMethod = "OPTIONS" THEN Done(r, PreflightReply)
    ELSE IF ev.bodyKind = "malformed"
        THEN Thrown(r, QslError(<<"bad body">>, 3001, 400))
    ELSE IF ev.bodyKind = "null"
        THEN Thrown(r, RuntimeError(<<"TypeError">>))
    ELSE IF action \notin supportedActions
        THEN Thrown(r, QslError(<<"bad action">>, 3002, 400))
    ELSE IF action = "ping" THEN Done(r, SuccessEnvelope(StatusResult))
    ELSE IF action \in {"getStats", "getChartData", "getSentCards"}
        THEN AwaitGet([r EXCEPT !.isSent = TRUE], "get")
    ELSE IF action = "getReceivedCards"
        THEN AwaitGet([r EXCEPT !.isSent = FALSE], "get")
    ELSE IF action = "saveCard"
        THEN saveCardEnter(r, body.cardData, body.hasCardData,
                           body.type # "received")
    ELSE IF ev.qType = ""
        THEN Thrown(r, QslError(<<"type required">>, 3003, 400))
    ELSE deleteCardEnter(r, ev.cardId, ev.qType = "sent")

\* both collections have never been written, or both blobs were created
\* empty
Init ==
    /\ store \in {[p \in Paths |-> AbsentBlob], [p \in Paths |-> BlankBlob]}
    /\ req = [s \in Slots |-> IdleSlot]
    /\ nextUuid = 1
    /\ now = 0

\* the slot a new request runs in: the first idle one
FreeSlot(s) ==
    /\ req[s].pc = "idle"
    /\ \A t \in Slots : t < s => req[t].pc # "idle"

\* no request has returned a reply that is still to be delivered: a request
\* that finishes returns its reply in the same turn of the event loop
NoneDone == \A s \in Slots : req[s].pc # "done"

\* r is a saveCard that has not called uuidv4() yet
Reading(r) == r.action = "saveCard" /\ r.pc = "get"

\* a further saveCard can be admitted within the bound on uuidv4() calls
UuidsLeft ==
    (nextUuid - 1) + Cardinality({s \in Slots : Reading(req[s])}) < MaxUuid

\* a request with event ev arrives in slot s and runs to its first store
\* call or to its return
Arrive(s, ev) ==
    /\ NoneDone
    /\ FreeSlot(s)
    /\ Reading(handleRequestEnter(ev)) => UuidsLeft
    /\ req' = [req EXCEPT ![s] = handleRequestEnter(ev)]
    /\ UNCHANGED <<store, nextUuid, now>>

\* a saveCard or deleteCard request arrives, whatever else is running
Start(s) == \E ev \in WriteEvents : Arrive(s, ev)

\* any request arrives while no other request is running
StartAlone(s) ==
    /\ \A t \in Slots : req[t].pc = "idle"
    /\ \E ev \in Events : Arrive(s, ev)

\* saveCard after readFromCos returned `cards`: build newCard, upsert,
\* call writeToCos
saveCardWrite(r, cards, uuid, created, updated) ==
    LET newCard == NewCard(r.cardData, uuid, created, updated) IN
    AwaitPut([r EXCEPT !.cards = cards, !.newCard = newCard, !.uuid = uuid],
             Upsert(cards, newCard))

\* deleteCard after readFromCos returned `cards`
deleteCardWrite(r, cards) ==
    LET filteredCards == Filtered(cards, r.cardId) IN
    IF NothingRemoved(cards, filteredCards)
    THEN Thrown([r EXCEPT !.cards = cards],
                QslError(<<"not found">>, 2003, 404))
    ELSE AwaitPut([r EXCEPT !.cards = cards], filteredCards)

\* a read that writes back what it has read
readOnlyNextWriteBack(r, cards) == AwaitPut([r EXCEPT !.cards = cards], cards)

\* a read-only operation after its (first) readFromCos returned `cards`
readOnlyNext(r, cards) ==
    IF r.action \in {"getSentCards", "getReceivedCards"}
    THEN Done([r EXCEPT !.cards = cards], SuccessEnvelope(CardsResult(cards)))
    ELSE AwaitGet([r EXCEPT !.cards = cards, !.sentCards = cards], "get2")

\* r with the record of a readFromCos call answered under outcome o
Answered(r, path, o) ==
    [r EXCEPT !.seen = store,
              !.answer = GetObject(store[path], o),
              !.loaded = readFromCos(store[path], o).ok]

\* getObject returns to a request suspended in its first readFromCos,
\* with one of `outcomes`.  A saveCard reads the clock twice; d1 is the time
\* that passed since the clock was last read, d2 the time between its two
\* readings.
GetReturns(s, outcomes) ==
    /\ NoneDone
    /\ req[s].pc = "get"
    /\ \E o \in outcomes, d1 \in {0, 1}, d2 \in {0, 1} :
        LET path == PathOf(req[s].isSent)
            r == Answered(req[s], path, o)
            load == readFromCos(store[path], o)
        IN
        /\ now + d1 + d2 <= MaxClock
        /\ IF ~load.ok
           THEN /\ d1 + d2 = 0
                /\ req' = [req EXCEPT ![s] = Thrown(r, load.error)]
                /\ UNCHANGED <<nextUuid, now>>
           ELSE IF r.action = "saveCard"
           THEN /\ req' = [req EXCEPT ![s] =
                            saveCardWrite(r, load.cards, nextUuid, now + d1,
                                          now + d1 + d2)]
                /\ nextUuid' = nextUuid + 1
                /\ now' = now + d1 + d2
           ELSE /\ d1 + d2 = 0
                /\ req' = [req EXCEPT ![s] =
                            IF r.action = "deleteCard"
                            THEN deleteCardWrite(r, load.cards)
                            ELSE readOnlyNext(r, load.cards)]
                /\ UNCHANGED <<nextUuid, now>>
    /\ UNCHANGED store

\* the store answers a get, or refuses it
GetReturn(s) == GetReturns(s, {"ok", "AccessDenied"})

\* the store answers a get
GetReturnOk(s) == GetReturns(s, {"ok"})

\* the store answers a get, or fails in any of its ways
GetReturnAny(s) == GetReturns(s, GetOutcomes)

\* getObject returns to getStats or getChartData suspended in its second
\* readFromCos, on one of `days`
GetReturn2On(s, outcomes, days) ==
    /\ NoneDone
    /\ req[s].pc = "get2"
    /\ \E o \in outcomes :
        LET r == Answered(req[s], ReceivedPath, o)
            load == readFromCos(store[ReceivedPath], o)
        IN
        IF ~load.ok THEN req' = [req EXCEPT ![s] = Thrown(r, load.error)]
        ELSE \* getChartData reads the calendar, getStats does not
             \E today \in IF r.action = "getChartData" THEN days
                           ELSE {InvalidDate} :
                req' = [req EXCEPT ![s] =
                         Done([r EXCEPT !.cards = load.cards],
                              SuccessEnvelope(
                                  ViewResult(r.action, r.sentCards,
                                             load.cards, today)))]
    /\ UNCHANGED <<store, nextUuid, now>>

\* the second read returns, or fails, on one day
GetReturn2(s) == GetReturn2On(s, GetOutcomes, {DateOf(2024, 1, 15)})

\* the days the chart is asked for: the first day of every month of a year
\* and the 31st of the months that have one
Days ==
    {d \in {DateOf(2024, month, day) : month \in 0..11, day \in {1, 31}} :
        d.day <= DaysInMonth(d.year, d.month)}

\* the second read returns on any of these days
GetReturn2AnyDay(s) == GetReturn2On(s, {"ok"}, Days)

\* putObject returns to a request suspended in writeToCos
PutReturn(s) ==
    /\ NoneDone
    /\ req[s].pc = "put"
    /\ \E o \in PutOutcomes :
        LET r == [req[s] EXCEPT !.over = store[PathOf(req[s].isSent)]]
            path == PathOf(r.isSent)
        IN
        IF o = "ok"
        THEN /\ store' = [store EXCEPT ![path] = PutObject(@, r.data)]
             /\ req' = [req EXCEPT ![s] =
                         Done(r, SuccessEnvelope(
                                  IF r.action = "saveCard"
                                  THEN CardResult(r.newCard)
                                  ELSE TrueResult))]
        ELSE /\ req' = [req EXCEPT ![s] = Thrown(r, WriteError)]
             /\ UNCHANGED store
    /\ UNCHANGED <<nextUuid, now>>

\* handleRequest's reply is handed to the platform and the slot is free
Deliver(s) ==
    /\ req[s].pc = "done"
    /\ req' = [req EXCEPT ![s] = IdleSlot]
    /\ UNCHANGED <<store, nextUuid, now>>

\* saveCard and deleteCard requests on one collection, running concurrently
Next ==
    \/ \E s \in Slots : Start(s)
    \/ \E s \in Slots : GetReturn(s)
    \/ \E s \in Slots : PutReturn(s)
    \/ \E s \in Slots : Deliver(s)

Spec == Init /\ [][Next]_vars

\* requests of every kind, one at a time
SeqNext ==
    \/ \E s \in Slots : StartAlone(s)
    \/ \E s \in Slots : GetReturnAny(s)
    \/ \E s \in Slots : GetReturn2(s)
    \/ \E s \in Slots : PutReturn(s)
    \/ \E s \in Slots : Deliver(s)

SeqSpec == Init /\ [][SeqNext]_vars

(* ------------------- the views of given collections ------------------- *)
\* cards found in a collection: as saveCard stores them, and as an earlier
\* release or another writer of the bucket left them
FoundCard(callSign, mode, date, status) ==
    [id |-> NoId, callSign |-> callSign, myCallSign |-> S_mycall,
     date |-> date, mode |-> mode, cardType |-> S_online, status |-> status,
     createdAt |-> 0, updatedAt |-> 0]
FoundCards ==
    {FoundCard(S_call, S_mode, S_date, S_pending),
     FoundCard(S_call2, S_modeLower, S_dateFirst, S_sent),
     FoundCard(S_call3, S_eyeMixed, S_dateWord, S_received),
     FoundCard(Absent, Absent, Absent, Absent),
     FoundCard(S_callShort, S_modeTwo, S_dateNoMonth, S_pending)}

\* the collections of at most n found cards, the i-th with id 200 + i
Collections(n) ==
    UNION {{[i \in 1..k |-> [cards[i] EXCEPT !.id = 200 + i]] :
              cards \in [1..k -> FoundCards]} : k \in 0..n}

ViewInit ==
    /\ store \in {[p \in Paths |->
                    JsonBlob(IF p = SentPath THEN sentCards
                             ELSE receivedCards)] :
                    sentCards \in Collections(MaxSentCards),
                    receivedCards \in Collections(MaxReceivedCards)}
    /\ req = [s \in Slots |-> IdleSlot]
    /\ nextUuid = 1
    /\ now = 0

\* a getStats or getChartData request arrives while no other is running
StartView(s) ==
    /\ \A t \in Slots : req[t].pc = "idle"
    /\ \E a \in {"getStats", "getChartData"} :
        Arrive(s, [BaseEvent EXCEPT !.qAction = a])

\* getStats and getChartData requests, one at a time, on any day
ViewNext ==
    \/ \E s \in Slots : StartView(s)
    \/ \E s \in Slots : GetReturnOk(s)
    \/ \E s \in Slots : GetReturn2AnyDay(s)
    \/ \E s \in Slots : Deliver(s)

ViewSpec == ViewInit /\ [][ViewNext]_vars

(* ----------------------------- properties ----------------------------- *)
IdsOf(cards) == {cards[i].id : i \in 1..Len(cards)}
PositionsOf(cards, id) == {i \in 1..Len(cards) : cards[i].id = id}

Finished(s) == req[s].pc = "done"
Succeeded(s) ==
    Finished(s) /\ req[s].reply.statusCode = 200 /\ req[s].reply.code = 0
Saved(s) == Succeeded(s) /\ req[s].action = "saveCard"

\* the collection the request addressed, as its readFromCos found it and as
\* it is now
Before(s) == req[s].seen[PathOf(req[s].isSent)].cards
After(s) == store[PathOf(req[s].isSent)].cards

\* C1: after a saveCard that ran alone and succeeded, a read of the role's
\* collection holds exactly one record with the returned id, and that
\* record's updatedAt is at least its createdAt.
C1_SaveThenLoad ==
    \A s \in Slots :
        Saved(s) =>
            LET again == readFromCos(store[PathOf(req[s].isSent)], "ok")
                at == PositionsOf(again.cards, req[s].reply.data.card.id)
            IN
            /\ again.ok
            /\ Cardinality(at) = 1
            /\ \A i \in at :
                again.cards[i].updatedAt >= again.cards[i].createdAt

\* an update of a stored card has succeeded, with time passing between the
\* two clock readings
C1_Witness ==
    \E s \in Slots :
        /\ Saved(s)
        /\ req[s].cardData.id \in IdsOf(Before(s))
        /\ req[s].reply.data.card.updatedAt > req[s].reply.data.card.createdAt

\* a deleteCard, with an id, has returned after reading a collection that
\* holds no record of that id
DeleteMissed(s) ==
    /\ Finished(s)
    /\ req[s].action = "deleteCard"
    /\ req[s].cardId # NoId
    /\ req[s].loaded
    /\ req[s].cardId \notin IdsOf(Before(s))

\* C2: deleteCard with a non-empty id that no record of the addressed
\* collection has fails with code 2003 and HTTP 404, issues no put and
\* leaves both collections as they were.
C2_DeleteMissing ==
    \A s \in Slots :
        DeleteMissed(s) =>
            /\ req[s].reply.code = 2003
            /\ req[s].reply.statusCode = 404
            /\ req[s].puts = 0
            /\ store = req[s].seen

\* the id was missing from a collection that holds a card
C2_Witness == \E s \in Slots : DeleteMissed(s) /\ Before(s) # << >>

\* C3: no stored collection ever holds two records with the same id.
C3_UniqueIds ==
    \A p \in Paths :
        \A i, j \in 1..Len(store[p].cards) :
            i # j => store[p].cards[i].id # store[p].cards[j].id

\* a saveCard that carried the id of a stored card has succeeded while
\* another request, which also read the collection, is about to write it
C3_Witness ==
    \E s, t \in Slots :
        /\ Saved(s)
        /\ req[s].cardData.id \in IdsOf(Before(s))
        /\ req[t].pc = "put"

\* a saveCard has succeeded whose record has the id of no stored record
Inserted(s) ==
    /\ Saved(s)
    /\ \/ req[s].cardData.id = NoId
       \/ req[s].cardData.id \notin IdsOf(Before(s))

\* the new record is the last one and the others are as they were
AppendedLast(s) ==
    /\ Len(After(s)) = Len(Before(s)) + 1
    /\ After(s)[Len(After(s))] = req[s].reply.data.card
    /\ \A i \in 1..Len(Before(s)) : After(s)[i] = Before(s)[i]

Updated(s) == Saved(s) /\ req[s].cardData.id \in IdsOf(Before(s))

PayloadOf(s) ==
    IF req[s].gets > 0 THEN req[s].cardData
    ELSE IF RequestBody(req[s].ev).hasCardData
        THEN RequestBody(req[s].ev).cardData
    ELSE NoCardData
SentRole(s) ==
    IF req[s].gets > 0 THEN req[s].isSent
    ELSE RequestBody(req[s].ev).type # "received"

NonBlank(v) == v # Absent /\ Trim(Chars(v)) # << >>

\* the validator rules a record violates; a missing payload has no field
BrokenRules(card, sent) ==
    (IF NonBlank(card.callSign) THEN {} ELSE {E_callSign})
    \cup (IF NonBlank(card.myCallSign) THEN {} ELSE {E_myCallSign})
    \cup (IF card.date # Absent /\ DatePattern(card.date)
          THEN {} ELSE {E_date})
    \cup (IF NonBlank(card.mode) THEN {} ELSE {E_mode})
    \cup (IF card.cardType \in {S_online, S_physical} THEN {} ELSE {E_cardType})
    \cup (IF sent /\ card.status \notin {S_pending, S_sent}
          THEN {E_statusSent} ELSE {})
    \cup (IF ~sent /\ card.status \notin {Absent, S_received, S_verified}
          THEN {E_statusReceived} ELSE {})

\* C6 as claimed: a saveCard request whose record violates a validator rule,
\* or that carries no record, fails with code 2001 and HTTP 400, its
\* message has one entry for each violated rule and none for a satisfied
\* one, and no get or put is issued.
C6_RejectsEveryViolation ==
    \A s \in Slots :
        (/\ Finished(s)
         /\ req[s].action = "saveCard"
         /\ BrokenRules(PayloadOf(s), SentRole(s)) # {}) =>
            LET message == req[s].reply.message IN
            /\ req[s].reply.code = 2001
            /\ req[s].reply.statusCode = 400
            /\ {message[i] : i \in 1..Len(message)}
                   = BrokenRules(PayloadOf(s), SentRole(s))
            /\ Len(message) = Cardinality(BrokenRules(PayloadOf(s), SentRole(s)))
            /\ req[s].gets = 0
            /\ req[s].puts = 0

\* C7 as claimed: every stored sent card has status pending or sent, every
\* stored received card has status absent, received or verified, and every
\* stored card has non-blank callSign, myCallSign and mode, a date of the
\* form YYYY-MM-DD and cardType online or physical.
C7_StoredCardsValid ==
    \A p \in Paths :
        \A i \in 1..Len(store[p].cards) :
            LET card == store[p].cards[i] IN
            /\ p = SentPath => card.status \in {S_pending, S_sent}
            /\ p = ReceivedPath =>
                card.status \in {Absent, S_received, S_verified}
            /\ NonBlank(card.callSign)
            /\ NonBlank(card.myCallSign)
            /\ NonBlank(card.mode)
            /\ DatePattern(card.date)
            /\ card.cardType \in {S_online, S_physical}

\* the blob the request's last readFromCos asked for, as it was then
LastBlob(s) ==
    req[s].seen[IF req[s].gets = 2 THEN ReceivedPath
                ELSE PathOf(req[s].isSent)]
LoadedEmpty(s) == req[s].loaded /\ req[s].cards = << >>
Writes(s) == req[s].action \in {"saveCard", "deleteCard"}

\* a failed load is a typed failure and a write request stops there
FailedLoadStops(s) ==
    req[s].answer \in GetFailures =>
        /\ ~req[s].loaded
        /\ req[s].reply.code \in 1001..1005
        /\ req[s].reply.statusCode >= 400
        /\ Writes(s) => req[s].puts = 0 /\ store = req[s].seen

\* C8 as claimed: a load returns the empty sequence exactly when the store
\* reports the blob as not found or the blob is empty or whitespace; every
\* other retrieval failure is a typed failure, and a saveCard or deleteCard
\* whose load failed issues no put and leaves the store as it was.
C8_EmptyOnlyIfMissingOrBlank ==
    \A s \in Slots :
        (Finished(s) /\ req[s].gets > 0) =>
            /\ LoadedEmpty(s) <=>
                \/ req[s].answer = "NoSuchKey"
                \/ req[s].answer = "body" /\ LastBlob(s).kind = "blank"
            /\ FailedLoadStops(s)

\* C8 as amended: a load returns the empty sequence exactly when the store
\* reports the blob as not found, the blob is empty or whitespace, or the
\* blob holds the empty array; every other retrieval failure is a typed
\* failure, and a saveCard or deleteCard whose load failed issues no put
\* and leaves the store as it was.
C8_EmptyOnlyIfNothingStored ==
    \A s \in Slots :
        (Finished(s) /\ req[s].gets > 0) =>
            /\ LoadedEmpty(s) <=>
                \/ req[s].answer = "NoSuchKey"
                \/ req[s].answer = "body" /\ LastBlob(s).kind = "blank"
                \/ req[s].answer = "body" /\ LastBlob(s) = JsonBlob(<< >>)
            /\ FailedLoadStops(s)

\* a saveCard or deleteCard has returned after its load of a collection
\* that holds a card failed
C8_Witness ==
    \E s \in Slots :
        /\ Finished(s)
        /\ Writes(s)
        /\ req[s].answer \in GetFailures
        /\ LastBlob(s).cards # << >>

\* C9: the last put wins.  When a saveCard or deleteCard reports success
\* the collection is what the request computed from its own snapshot: each
\* stored card is a card of that snapshot or the request's new card,
\* whatever was put between its read and its put.
C9_LastPutWins ==
    \A s \in Slots :
        (Succeeded(s) /\ Writes(s)) =>
            /\ After(s) = req[s].data
            /\ \A i \in 1..Len(After(s)) :
                \/ \E j \in 1..Len(Before(s)) : After(s)[i] = Before(s)[j]
                \/ req[s].action = "saveCard" /\ After(s)[i] = req[s].newCard

\* a lost update: a write has reported success, and a card that another
\* request's successful saveCard stored after this request had read the
\* collection is gone, although this request was about another card
C9_Witness ==
    \E s \in Slots :
        /\ Succeeded(s)
        /\ Writes(s)
        /\ \E i \in 1..Len(req[s].over.cards) :
            LET lost == req[s].over.cards[i].id IN
            /\ lost \notin IdsOf(Before(s))
            /\ lost \notin IdsOf(After(s))
            /\ lost # req[s].newCard.id
            /\ lost # req[s].cardId

\* C10: every request other than OPTIONS ends with one envelope, a body
\* with a message and the request identifier: HTTP 200 with code 0 and the
\* result, or a non-zero code with an HTTP status of 400 or above.
C10_OneEnvelope ==
    \A s \in Slots :
        (Finished(s) /\ req[s].ev.httpMethod # "OPTIONS") =>
            LET reply == req[s].reply IN
            /\ reply.body
            /\ reply.requestId
            /\ reply.message # << >>
            /\ \/ /\ reply.statusCode = 200
                  /\ reply.code = 0
                  /\ reply.data # NoResult
               \/ /\ reply.statusCode >= 400
                  /\ reply.code # 0
                  /\ reply.data = NoResult

\* a request has ended in an error that is not a QslError
C10_Witness ==
    \E s \in Slots :
        /\ Finished(s)
        /\ req[s].reply.code = -1
        /\ req[s].reply.statusCode = 500

\* r is a deleteCard request that names no id or no role flag
DeleteOmits(r) ==
    /\ r.action = "deleteCard"
    /\ r.pc # "idle"
    /\ \/ r.flag = ""
       \/ (IF r.gets = 0 THEN r.ev.cardId ELSE r.cardId) = NoId

\* C11: a deleteCard request that omits the id, the role flag or both
\* returns, in the step it arrives in, a typed failure of HTTP status 400
\* (code 2002 or 3003) without a get or a put, and both collections stay as
\* they are.
C11_DeleteNeedsIdAndType ==
    [][\A s \in Slots :
        (req[s].pc = "idle" /\ DeleteOmits(req'[s])) =>
            /\ req'[s].pc = "done"
            /\ req'[s].reply.statusCode = 400
            /\ req'[s].reply.code \in {2002, 3003}
            /\ req'[s].gets = 0
            /\ req'[s].puts = 0
            /\ store' = store]_vars

\* a deleteCard that names a role but no id has been refused while the
\* collection of that role holds a card
C11_Witness ==
    \E s \in Slots :
        /\ Finished(s)
        /\ DeleteOmits(req[s])
        /\ req[s].flag = "sent"
        /\ req[s].reply.code = 2002
        /\ store[SentPath].cards # << >>

\* a getChartData or getStats request has returned its view
ChartDone(s) == Succeeded(s) /\ req[s].action = "getChartData"
StatsDone(s) == Succeeded(s) /\ req[s].action = "getStats"
Monthly(s) == req[s].reply.data.view.monthly
Modes(s) == req[s].reply.data.view.modes
SentOf(s) == req[s].reply.data.cards
ReceivedOf(s) == req[s].reply.data.received
BothOf(s) == SentOf(s) \o ReceivedOf(s)

\* the label YYYY-MM of the n-th month, counting months from January of
\* year 0
LabelOfMonth(n) ==
    NumberToString(n \div 12) \o <<"-">>
        \o PadStart2(NumberToString((n % 12) + 1))

\* C12 as claimed: on every day the chart's month labels are the 6 labels
\* YYYY-MM of the 6 consecutive calendar months that end with the current
\* month, in ascending order (and so pairwise distinct).
C12_SixConsecutiveMonths ==
    \A s \in Slots :
        ChartDone(s) =>
            LET today == req[s].reply.data.today
                current == 12 * today.year + today.month
            IN
            /\ Len(Monthly(s).labels) = 6
            /\ \A k \in 1..6 :
                Monthly(s).labels[k] = LabelOfMonth(current - (6 - k))

\* the card's date is a calendar date YYYY-MM-DD of the month `label`
FallsIn(card, label) ==
    LET c == Chars(card.date) IN
    /\ card.date # Absent
    /\ DatePattern(card.date)
    /\ StringToNumber(SubSeq(c, 6, 7)) \in 1..12
    /\ StringToNumber(SubSeq(c, 9, 10)) \in
          1..DaysInMonth(StringToNumber(SubSeq(c, 1, 4)),
                         StringToNumber(SubSeq(c, 6, 7)) - 1)
    /\ SubSeq(c, 1, 7) = label

UpperMode(card) ==
    IF card.mode = Absent THEN <<"O", "T", "H", "E", "R">>
    ELSE toUpperCase(Chars(card.mode))

\* where a label is first seen, scanning the sent cards, then the received
FirstSeen(cards, label) ==
    CHOOSE i \in 1..Len(cards) :
        /\ UpperMode(cards[i]) = label
        /\ \A j \in 1..(i - 1) : UpperMode(cards[j]) # label

RECURSIVE SumOf(_)
SumOf(numbers) ==
    IF numbers = << >> THEN 0 ELSE Head(numbers) + SumOf(Tail(numbers))

\* C14 as claimed: the mode breakdown has as many counts as labels, the
\* labels are pairwise distinct, the count at position i is the number of
\* cards of both collections whose upper-cased mode is label i (OTHER for a
\* card without mode), the counts add up to the number of cards, and the
\* labels are in the order in which they are first seen.
C14_ModesInFirstSeenOrder ==
    \A s \in Slots :
        ChartDone(s) =>
            LET labels == Modes(s).labels
                data == Modes(s).data
            IN
            /\ Len(labels) = Len(data)
            /\ \A i, j \in 1..Len(labels) : i # j => labels[i] # labels[j]
            /\ \A i \in 1..Len(labels) :
                data[i] = Cardinality({n \in 1..Len(BothOf(s)) :
                                        UpperMode(BothOf(s)[n]) = labels[i]})
            /\ SumOf(data) = Len(BothOf(s))
            /\ \A i, j \in 1..Len(labels) :
                i < j => FirstSeen(BothOf(s), labels[i])
                            < FirstSeen(BothOf(s), labels[j])

\* the card has a call sign / the two call signs begin with the same two
\* characters, whatever their case
HasCallSign(card) == card.callSign \notin {Absent, S_empty}
SamePrefix(a, b) ==
    LET ca == Chars(a.callSign)
        cb == Chars(b.callSign)
    IN
    /\ (Len(ca) < 2 \/ Len(cb) < 2) => Len(ca) = Len(cb)
    /\ \A i \in 1..2 :
        (i <= Len(ca) /\ i <= Len(cb)) =>
            toLowerCase(<<ca[i]>>) = toLowerCase(<<cb[i]>>)

\* C15: the stats view reports the number of received cards, the number of
\* sent cards, the number of sent cards with status pending (at most the
\* number of sent cards), the number of distinct upper-cased two-character
\* call sign prefixes over the cards of both collections that have a call
\* sign, and the number of cards of both collections whose mode is eye in
\* any case.
C15_Stats ==
    \A s \in Slots :
        StatsDone(s) =>
            LET view == req[s].reply.data.view
                all == BothOf(s)
                signed == {i \in 1..Len(all) : HasCallSign(all[i])}
                \* the first card of every prefix
                firsts == {i \in signed :
                            \A j \in signed :
                                j < i => ~SamePrefix(all[i], all[j])}
            IN
            /\ view.received = Len(ReceivedOf(s))
            /\ view.sent = Len(SentOf(s))
            /\ view.pending =
                Len(SelectSeq(SentOf(s), LAMBDA c : c.status = S_pending))
            /\ view.pending <= view.sent
            /\ view.countries = Cardinality(firsts)
            /\ view.eyeQso =
                Cardinality({i \in 1..Len(all) :
                                all[i].mode \in {S_eyeMixed, "eye", "EYE"}})

\* stats over two cards of one country written in different case, a card
\* without call sign, a sent card that is not pending and an eye contact
C15_Witness ==
    \E s \in Slots :
        /\ StatsDone(s)
        /\ req[s].reply.data.view.countries = 1
        /\ Cardinality({i \in 1..Len(BothOf(s)) :
                           HasCallSign(BothOf(s)[i])}) = 2
        /\ req[s].reply.data.view.pending < req[s].reply.data.view.sent

ReadOnlyActions ==
    {"ping", "getStats", "getChartData", "getSentCards", "getReceivedCards"}

\* C16: no step of a ping, getStats, getChartData, getSentCards or
\* getReceivedCards request calls put or changes a stored collection,
\* whatever the store answers.
C16_ReadsDoNotWrite ==
    [][\A s \in Slots :
        (req'[s] # req[s] /\ req'[s].action \in ReadOnlyActions) =>
            /\ req'[s].pc # "put"
            /\ req'[s].puts = 0
            /\ store' = store]_vars

\* getStats has returned its view of collections that hold cards
C16_Witness ==
    \E s \in Slots :
        /\ Succeeded(s)
        /\ req[s].action = "getStats"
        /\ req[s].gets = 2
        /\ req[s].puts = 0
        /\ \A p \in Paths : store[p].cards # << >>

\* the conditions under which the store layer fails, and the code each is
\* reported with
StoreFailures ==
    {"SignatureDoesNotMatch", "AccessDenied", "InvalidBucketName",
     "InvalidRegion", "UnclassifiedRead", "NotAnArray", "WriteFailed"}
CodeOfFailure(condition) ==
    IF condition = "NotAnArray" THEN NotArrayError.code
    ELSE IF condition = "WriteFailed" THEN WriteError.code
    ELSE IF condition = "UnclassifiedRead"
        THEN readFromCos(AbsentBlob, "Other").error.code
    ELSE readFromCos(AbsentBlob, condition).error.code

\* the request ended in a failure of the store layer / the condition it
\* failed under
StoreFailed(s) ==
    Finished(s) /\ (req[s].answer \in GetFailures \/ req[s].puts > 0)
        /\ req[s].reply.code # 0
FailureOf(s) ==
    IF req[s].puts > 0 THEN "WriteFailed"
    ELSE IF req[s].answer \in {"Other", "BadBody"} THEN "UnclassifiedRead"
    ELSE req[s].answer

\* C17 as claimed: a request that ends in a failure of the store layer
\* carries the code of its failure condition, and no other failure
\* condition of the store layer (on read or on write) has that code.
C17_DistinctCodes ==
    \A s \in Slots :
        StoreFailed(s) =>
            /\ req[s].reply.code = CodeOfFailure(FailureOf(s))
            /\ \A other \in StoreFailures \ {FailureOf(s)} :
                CodeOfFailure(other) # req[s].reply.code

\* a deleteCard has returned that read a collection holding its id
DeleteFound(s) ==
    /\ Finished(s)
    /\ req[s].action = "deleteCard"
    /\ req[s].loaded
    /\ req[s].cardId \in IdsOf(Before(s))

\* the path of the other role
OtherPath(s) == PathOf(~req[s].isSent)

C19_CreatedAtIsKept ==
    [][\A p \in Paths :
        \A i \in 1..Len(store[p].cards), j \in 1..Len(store'[p].cards) :
            store[p].cards[i].id = store'[p].cards[j].id =>
                store'[p].cards[j].createdAt = store[p].cards[i].createdAt]_vars

\* C20 as claimed: saveCard and deleteCard take a non-empty role flag to the
\* same collection, sent unless the flag is exactly received, and a write
\* request changes that collection only.
C20_SameCollectionForFlag ==
    \A s \in Slots :
        (Writes(s) /\ req[s].gets > 0 /\ req[s].flag # "") =>
            /\ req[s].isSent = (req[s].flag # "received")
            /\ Finished(s) =>
                LET other == IF req[s].flag # "received" THEN ReceivedPath
                             ELSE SentPath
                IN store[other] = req[s].seen[other]

====
